---- MODULE Spec2Model ----
(***************************************************************************)
(* Model of the talon dashboard: the WorkspaceChannels component (channel  *)
(* store), the WorkspacePage component (selection and message store), and  *)
(* the session proxy / direct send route handlers.                         *)
(*                                                                         *)
(* Strings that the code computes on (workspace ids, channel names and     *)
(* ids) are sequences of one-character strings; the empty sequence is ''.  *)
(* A nullable value is a sequence of length at most one: Null is null or   *)
(* undefined, Some(x) is x.                                                *)
(***************************************************************************)
EXTENDS Integers, Sequences, FiniteSets, TLC

VARIABLES
    workspaceId,      \* useParams().id of the page
    pageLoading,      \* WorkspacePage: loading
    workspace,        \* WorkspacePage: workspace (Null or Some(id))
    selectedChannel,  \* WorkspacePage: selectedChannel (Null or Some(channel))
    messages,         \* WorkspacePage: messages (channel id -> list, absent ids undefined)
    sending,          \* WorkspacePage: sending
    inflight,         \* the pending fetches of sendMessage, each with its closure
    lsMessages,       \* localStorage clawhub_messages_{channelId}, per stored channel id
    clock,            \* Date.now(), one tick per message built
    channels,         \* WorkspaceChannels: channels
    chLoading,        \* WorkspaceChannels: loading
    lsChannels,       \* localStorage clawhub_channels_{workspaceId} (Null or Some(json))
    nCreated,         \* number of channels created so far (bounds the model)
    appended,         \* history: per channel id, every message appended to its list
    lastOp,           \* history: the last handler that ran and the list length before it
    gatewayToken,     \* GATEWAY_TOKEN of the server process
    pc,               \* the route handler: "idle", "fetching" (awaiting the gateway), "done"
    request,          \* the request being handled (Null or Some(request))
    gatewayRequest,   \* the request issued to the gateway (Null or Some(fetch arguments))
    gatewayCalls,     \* number of fetches issued for the current request
    gatewayOutcome,   \* what the gateway fetch produced (Null or Some(outcome))
    thrown,           \* the exception raised while handling (Null or Some(error))
    responses         \* the responses returned for the current request

chVars == <<channels, chLoading, lsChannels, nCreated>>
pageVars == <<workspaceId, pageLoading, workspace, selectedChannel, messages,
              sending, inflight, lsMessages, clock, appended>>
proxyVars == <<gatewayToken, pc, request, gatewayRequest, gatewayCalls,
               gatewayOutcome, thrown, responses>>
vars == <<workspaceId, pageLoading, workspace, selectedChannel, messages, sending,
          inflight, lsMessages, clock, channels, chLoading, lsChannels, nCreated,
          appended, lastOp, gatewayToken, pc, request, gatewayRequest, gatewayCalls,
          gatewayOutcome, thrown, responses>>

----------------------------------------------------------------------------
(* Bounds *)

MaxNameLen == 2
MaxCreates == 1
MaxMessages == 3

----------------------------------------------------------------------------
(* Nullable values and strings *)

Null == <<>>
Some(x) == <<x>>

Hyphen == <<"-">>

WorkspaceIds == {<<"w">>, <<"x", "1">>}

RECURSIVE SeqsUpTo(_, _)
SeqsUpTo(S, n) ==
    IF n = 0 THEN {<<>>}
    ELSE LET shorter == SeqsUpTo(S, n - 1)
         IN  shorter \cup {Append(s, c) : s \in shorter, c \in S}

\* String.prototype.toLowerCase on the characters the model uses
LowerChar(c) ==
    CASE c = "A" -> "a"
      [] c = "G" -> "g"
      [] c = "M" -> "m"
      [] c = "P" -> "p"
      [] OTHER -> c

ToLowerCase(s) == [i \in 1..Len(s) |-> LowerChar(s[i])]

\* the regular expression class \s
IsSpace(c) == c \in {" ", "\t"}

RECURSIVE TrimStart(_)
TrimStart(s) ==
    IF s = <<>> THEN <<>>
    ELSE IF IsSpace(Head(s)) THEN TrimStart(Tail(s)) ELSE s

RECURSIVE TrimEnd(_)
TrimEnd(s) ==
    IF s = <<>> THEN <<>>
    ELSE IF IsSpace(s[Len(s)]) THEN TrimEnd(SubSeq(s, 1, Len(s) - 1)) ELSE s

\* String.prototype.trim
Trim(s) == TrimEnd(TrimStart(s))

\* s.replace(/\s+/g, '-')
RECURSIVE ReplaceSpaceRuns(_)
ReplaceSpaceRuns(s) ==
    IF s = <<>> THEN <<>>
    ELSE IF IsSpace(Head(s)) THEN Hyphen \o ReplaceSpaceRuns(TrimStart(s))
    ELSE <<Head(s)>> \o ReplaceSpaceRuns(Tail(s))

----------------------------------------------------------------------------
(* JSON.stringify / JSON.parse of an array of flat objects: the stored     *)
(* text of an object is its set of key/value members, the stored text of   *)
(* an array the sequence of its elements' texts.                           *)

StringifyObject(obj) == {<<k, obj[k]>> : k \in DOMAIN obj}

ParseObject(members) ==
    [k \in {m[1] : m \in members} |-> (CHOOSE m \in members : m[1] = k)[2]]

JSONstringify(list) == [i \in 1..Len(list) |-> StringifyObject(list[i])]

JSONparse(text) == [i \in 1..Len(text) |-> ParseObject(text[i])]

----------------------------------------------------------------------------
(* WorkspaceChannels *)

General == <<"g", "e", "n", "e", "r", "a", "l">>
Tasks == <<"t", "a", "s", "k", "s">>
Research == <<"r", "e", "s", "e", "a", "r", "c", "h">>
Ideas == <<"i", "d", "e", "a", "s">>

DEFAULT_CHANNELS ==
    << [name |-> General, description |-> <<"General discussion">>],
       [name |-> Tasks, description |-> <<"Task tracking and todos">>],
       [name |-> Research, description |-> <<"Research notes and findings">>],
       [name |-> Ideas, description |-> <<"Brainstorming and ideas">>] >>

\* defaults whose id lacks the workspace prefix
DefaultsUnprefixed(ws) ==
    [i \in 1..Len(DEFAULT_CHANNELS) |->
        [id |-> DEFAULT_CHANNELS[i].name,
         name |-> DEFAULT_CHANNELS[i].name,
         description |-> DEFAULT_CHANNELS[i].description]]

\* DEFAULT_CHANNELS.map(ch => ({...ch, id: `${workspaceId}-${ch.name}`}))
DefaultsFor(ws) ==
    [i \in 1..Len(DEFAULT_CHANNELS) |->
        [id |-> ws \o Hyphen \o DEFAULT_CHANNELS[i].name,
         name |-> DEFAULT_CHANNELS[i].name,
         description |-> DEFAULT_CHANNELS[i].description]]

\* the save effect of WorkspaceChannels, given the stored value before it
SaveChannels(chs, stored) ==
    IF Len(chs) > 0 THEN Some(JSONstringify(chs)) ELSE stored

\* the newChannel object built by handleCreateChannel
NewChannel(ws, newChannelName) ==
    [id |-> ws \o Hyphen \o ReplaceSpaceRuns(ToLowerCase(newChannelName)),
     name |-> ReplaceSpaceRuns(ToLowerCase(Trim(newChannelName))),
     description |-> <<>>]

\* prev.filter(ch => ch.id !== channelId)
FilterOut(chs, channelId) == SelectSeq(chs, LAMBDA ch : ch.id # channelId)

\* a guard that lets the last channel go
DeleteRejectedOffByOne(chs) == Len(chs) < 1

\* the early return of handleDeleteChannel
DeleteRejected(chs) == Len(chs) <= 1

\* WorkspaceChannels is rendered once the page has loaded and found its workspace
ChMounted == ~pageLoading /\ workspace # Null

\* what the user can type into the channel name input
InputAlphabet == {"a", "A", " "}

ExtraInputs ==
    { <<"G", "e", "n", "e", "r", "a", "l">>,
      <<"M", "y", " ", "P", "l", "a", "n">>,
      <<"M", "y", " ", "\t", "P", "l", "a", "n">> }

NameInputs == SeqsUpTo(InputAlphabet, MaxNameLen) \cup ExtraInputs

\* the load effect, then the save effect on the list it set
MountChannels ==
    /\ ChMounted
    /\ chLoading
    /\ LET defaults == DefaultsFor(workspaceId)
           seeded == Some(JSONstringify(defaults))
       IN  IF lsChannels # Null
           THEN /\ channels' = JSONparse(lsChannels[1])
                /\ lsChannels' = SaveChannels(channels', lsChannels)
           ELSE /\ channels' = defaults
                /\ lsChannels' = SaveChannels(channels', seeded)
    /\ chLoading' = FALSE
    /\ lastOp' = [op |-> "mount", n |-> Len(lsChannels)]
    /\ UNCHANGED nCreated
    /\ UNCHANGED pageVars
    /\ UNCHANGED proxyVars

HandleCreateChannel(newChannelName) ==
    /\ ChMounted
    /\ ~chLoading
    /\ nCreated < MaxCreates
    /\ IF Trim(newChannelName) = <<>>
       THEN UNCHANGED <<channels, lsChannels, nCreated>>
       ELSE /\ channels' = Append(channels, NewChannel(workspaceId, newChannelName))
            /\ lsChannels' = SaveChannels(channels', lsChannels)
            /\ nCreated' = nCreated + 1
    /\ lastOp' = [op |-> "create", n |-> Len(channels)]
    /\ UNCHANGED chLoading
    /\ UNCHANGED pageVars
    /\ UNCHANGED proxyVars

HandleDeleteChannel(channelId) ==
    /\ ChMounted
    /\ ~chLoading
    /\ IF DeleteRejected(channels)
       THEN UNCHANGED <<channels, lsChannels>>
       ELSE /\ channels' = FilterOut(channels, channelId)
            /\ lsChannels' = SaveChannels(channels', lsChannels)
    /\ lastOp' = [op |-> "delete", n |-> Len(channels)]
    /\ UNCHANGED <<chLoading, nCreated>>
    /\ UNCHANGED pageVars
    /\ UNCHANGED proxyVars

----------------------------------------------------------------------------
(* WorkspacePage *)

\* messages[id] || []
ListOf(msgs, id) == IF id \in DOMAIN msgs THEN msgs[id] ELSE <<>>

\* {...prev, [id]: list}
WithList(msgs, id, list) == (id :> list) @@ msgs

\* a load effect that reads storage on every selection
LoadMessagesAlways(sel, msgs, ls) ==
    IF sel # Null /\ sel[1].id \in DOMAIN ls
    THEN WithList(msgs, sel[1].id, JSONparse(ls[sel[1].id]))
    ELSE msgs

\* the load effect: reads storage when the selected channel is not held in memory
LoadMessages(sel, msgs, ls) ==
    IF sel # Null /\ sel[1].id \in DOMAIN ls /\ sel[1].id \notin DOMAIN msgs
    THEN WithList(msgs, sel[1].id, JSONparse(ls[sel[1].id]))
    ELSE msgs

\* the save effect: writes the selected channel's list, and no other
SaveMessages(sel, msgs, ls) ==
    IF sel # Null /\ sel[1].id \in DOMAIN msgs
    THEN WithList(ls, sel[1].id, JSONstringify(msgs[sel[1].id]))
    ELSE ls

\* the userMessage object of sendMessage
UserMessage(t, msg, channel) ==
    [id |-> <<"msg-", ToString(t)>>,
     role |-> <<"user">>,
     content |-> msg,
     time |-> <<ToString(t)>>,
     channelId |-> channel.id]

\* the agentMessage object of sendMessage
AgentMessage(t, response, channel) ==
    [id |-> <<"msg-", ToString(t), "-agent">>,
     role |-> <<"agent">>,
     content |-> response,
     time |-> <<ToString(t)>>,
     channelId |-> channel.id]

\* the body sendMessage posts to /api/sessions/send
SendBody(ws, msg, channel) ==
    [agentId |-> ws,
     message |-> <<"[Channel: #">> \o channel.name \o <<"]\n">> \o msg,
     label |-> ws \o Hyphen \o channel.name]

\* what the user can type into the message input
MessageInputs == {<<" ", "o", "k", " ">>, <<" ">>}

\* data.response of the proxy's answer
Responses == {<<"y", "o">>}

FetchOutcomes == {"ok", "notFound", "agentsFail", "projectsFail"}

\* the fetchData effect, then the message effects on the selection it set
FetchData(outcome) ==
    /\ pageLoading
    /\ pageLoading' = FALSE
    /\ workspace' = IF outcome \in {"ok", "projectsFail"} THEN Some(workspaceId)
                    ELSE workspace
    /\ selectedChannel' =
          IF /\ outcome \in {"ok", "notFound"}
             /\ lsChannels # Null
             /\ Len(JSONparse(lsChannels[1])) > 0
             /\ selectedChannel = Null
          THEN Some(JSONparse(lsChannels[1])[1])
          ELSE selectedChannel
    /\ messages' = LoadMessages(selectedChannel', messages, lsMessages)
    /\ lsMessages' = SaveMessages(selectedChannel', messages', lsMessages)
    /\ lastOp' = [op |-> "fetchData", n |-> Len(channels)]
    /\ UNCHANGED <<workspaceId, sending, inflight, clock, appended>>
    /\ UNCHANGED chVars
    /\ UNCHANGED proxyVars

\* handleChannelSelect, then the message effects
HandleChannelSelect(channel) ==
    /\ ChMounted
    /\ ~chLoading
    /\ selectedChannel' = Some(channel)
    /\ messages' = LoadMessages(selectedChannel', messages, lsMessages)
    /\ lsMessages' = SaveMessages(selectedChannel', messages', lsMessages)
    /\ lastOp' = [op |-> "select", n |-> Len(channels)]
    /\ UNCHANGED <<workspaceId, pageLoading, workspace, sending, inflight, clock,
                   appended>>
    /\ UNCHANGED chVars
    /\ UNCHANGED proxyVars

\* a guard that does not look at the sending flag
SendRejectedIgnoringSending(inputValue, isSending, selected) ==
    Trim(inputValue) = <<>> \/ selected = Null

\* the early return of sendMessage
SendRejected(inputValue, isSending, selected) ==
    Trim(inputValue) = <<>> \/ isSending \/ selected = Null

\* sendMessage up to its await, then the save effect
SendMessage(inputValue) ==
    /\ ~pageLoading
    /\ workspace # Null
    /\ clock < MaxMessages
    /\ IF SendRejected(inputValue, sending, selectedChannel)
       THEN UNCHANGED <<messages, sending, inflight, lsMessages, clock, appended>>
       ELSE LET channel == selectedChannel[1]
                msg == Trim(inputValue)
                userMessage == UserMessage(clock, msg, channel)
            IN  /\ messages' = WithList(messages, channel.id,
                                   Append(ListOf(messages, channel.id), userMessage))
                /\ sending' = TRUE
                /\ inflight' = Append(inflight,
                                   [channel |-> channel,
                                    body |-> SendBody(workspaceId, msg, channel)])
                /\ lsMessages' = SaveMessages(selectedChannel, messages', lsMessages)
                /\ clock' = clock + 1
                /\ appended' = WithList(appended, channel.id,
                                   Append(ListOf(appended, channel.id), userMessage))
    /\ lastOp' = [op |-> "send", n |-> Len(channels)]
    /\ UNCHANGED <<workspaceId, pageLoading, workspace, selectedChannel>>
    /\ UNCHANGED chVars
    /\ UNCHANGED proxyVars

ReplyOutcomes == {"ok", "okNoResponse", "notOk", "throws"}

\* an agent message appended whenever the fetch resolved
ReplyAppendsOnAnyStatus(outcome) == outcome \in {"ok", "notOk"}

\* res.ok && data.response: the answer carries a reply to append
ReplyAppends(outcome) == outcome = "ok"

\* inflight without its i-th fetch
Settle(pending, i) == SubSeq(pending, 1, i - 1) \o SubSeq(pending, i + 1, Len(pending))

\* sendMessage from the answer of its i-th pending fetch on, then the save effect
ReceiveReply(i, outcome, response) ==
    /\ i \in 1..Len(inflight)
    /\ LET channel == inflight[i].channel
           agentMessage == AgentMessage(clock, response, channel)
       IN  IF ReplyAppends(outcome)
           THEN /\ messages' = WithList(messages, channel.id,
                                   Append(ListOf(messages, channel.id), agentMessage))
                /\ clock' = clock + 1
                /\ appended' = WithList(appended, channel.id,
                                   Append(ListOf(appended, channel.id), agentMessage))
           ELSE UNCHANGED <<messages, clock, appended>>
    /\ lsMessages' = SaveMessages(selectedChannel, messages', lsMessages)
    /\ sending' = FALSE
    /\ inflight' = Settle(inflight, i)
    /\ lastOp' = [op |-> "reply", n |-> Len(channels)]
    /\ UNCHANGED <<workspaceId, pageLoading, workspace, selectedChannel>>
    /\ UNCHANGED chVars
    /\ UNCHANGED proxyVars

\* the browser reloads the page: component state is rebuilt, localStorage stays
Reload ==
    /\ pageLoading' = TRUE
    /\ workspace' = Null
    /\ selectedChannel' = Null
    /\ messages' = <<>>
    /\ sending' = FALSE
    /\ inflight' = Null
    /\ channels' = <<>>
    /\ chLoading' = TRUE
    /\ lastOp' = [op |-> "reload", n |-> Len(channels)]
    /\ UNCHANGED <<workspaceId, lsMessages, clock, appended, lsChannels, nCreated>>
    /\ UNCHANGED proxyVars

----------------------------------------------------------------------------
(* Route handlers: /api/sessions/[action] (the session proxy) and /api/send *)

GATEWAY_URL == "http://localhost:6820"

\* a check for undefined alone, which lets '' through
TruthyIfDefined(v) == v # Null

\* JavaScript truthiness of a nullable string: undefined, null and '' are falsy
Truthy(v) == v # Null /\ v[1] # ""

\* v || d
OrElse(v, d) == IF Truthy(v) THEN v[1] ELSE d

\* a destructuring default: it applies to an undefined field only
Default(v, d) == IF v = Null THEN d ELSE v[1]

\* JSON.stringify of an object literal: undefined fields are left out
StringifyFields(obj) == {<<k, obj[k][1]>> : k \in {f \in DOMAIN obj : obj[f] # Null}}

\* NextResponse.json(body, {status})
Json(status, body) == [status |-> status, body |-> body]

Respond(response) == [kind |-> "respond", response |-> response]
Fetch(gw) == [kind |-> "fetch", gw |-> gw]
Throw(error) == [kind |-> "throw", error |-> error]

\* getHeaders()
GetHeaders(token) ==
    IF token # ""
    THEN {<<"Content-Type", "application/json">>, <<"Authorization", "Bearer " \o token>>}
    ELSE {<<"Content-Type", "application/json">>}

GetFetch(path, query, token) ==
    [url |-> [base |-> GATEWAY_URL \o path, query |-> query],
     method |-> "GET",
     cache |-> Some("no-store"),
     headers |-> GetHeaders(token),
     body |-> Null]

PostFetch(path, body, token) ==
    [url |-> [base |-> GATEWAY_URL \o path, query |-> {}],
     method |-> "POST",
     cache |-> Null,
     headers |-> GetHeaders(token),
     body |-> Some(body)]

\* res.ok
Ok(res) == res.status >= 200 /\ res.status <= 299

\* a fixed status in place of the gateway's
FailedStatusFixed(res) == 500

\* the status send and spawn answer with when the gateway's is not OK
FailedStatus(res) == res.status

\* a default case answering 404
UnknownActionNotFound == Respond(Json(404, [error |-> "Unknown action"]))

\* the default case of both switch statements
UnknownAction == Respond(Json(400, [error |-> "Unknown action"]))

\* a catch block with the envelope of the direct send route
ProxyCatchOtherEnvelope == Json(500, [error |-> "Failed to send message"])

\* the catch block of the session proxy handlers
ProxyCatch == Json(500, [error |-> "Request failed"])

\* the catch block of the direct send route
SendCatch == Json(500, [error |-> "Failed to send message"])

\* await res.json() of a gateway answer, passed on as the response
PassOn(res) == IF res.json THEN Respond(Json(200, res.data)) ELSE Throw("res.json")

\* GET of the session proxy up to its fetch
ProxyGetStart(action, q, token) ==
    CASE action = "list" ->
            Fetch(GetFetch("/api/sessions",
                {<<"activeMinutes", OrElse(q.activeMinutes, "60")>>,
                 <<"limit", OrElse(q.limit, "50")>>,
                 <<"messageLimit", OrElse(q.messageLimit, "3")>>}
                \cup (IF Truthy(q.kinds) THEN {<<"kinds", q.kinds[1]>>} ELSE {}),
                token))
      [] action = "history" ->
            IF ~Truthy(q.sessionKey)
            THEN Respond(Json(400, [error |-> "sessionKey required"]))
            ELSE Fetch(GetFetch("/api/sessions/history",
                    {<<"sessionKey", q.sessionKey[1]>>,
                     <<"limit", OrElse(q.limit, "50")>>}
                    \cup (IF q.includeTools = Some("true")
                          THEN {<<"includeTools", "true">>} ELSE {}),
                    token))
      [] action = "status" ->
            Fetch(GetFetch("/api/session/status",
                IF Truthy(q.sessionKey) THEN {<<"sessionKey", q.sessionKey[1]>>} ELSE {},
                token))
      [] OTHER -> UnknownAction

\* GET of the session proxy from the gateway's answer on
ProxyGetFinish(action, res) ==
    IF res.kind = "network" THEN Throw("fetch")
    ELSE IF ~Ok(res)
    THEN CASE action = "list" -> Respond(Json(200, [sessions |-> <<>>]))
           [] action = "history" -> Respond(Json(200, [messages |-> <<>>]))
           [] OTHER -> Respond(Json(200, <<>>))
    ELSE PassOn(res)

\* POST of the session proxy up to its fetch
ProxyPostStart(action, body, token) ==
    IF body.kind = "invalid" THEN Throw("request.json")
    ELSE CASE action = "send" ->
                IF body.kind = "null" THEN Throw("destructure")
                ELSE IF ~Truthy(body.message)
                THEN Respond(Json(400, [error |-> "message required"]))
                ELSE Fetch(PostFetch("/api/sessions/send",
                        StringifyFields(
                            [sessionKey |-> body.sessionKey,
                             agentId |-> body.agentId,
                             label |-> body.label,
                             message |-> body.message,
                             timeoutSeconds |-> Some(Default(body.timeoutSeconds, 120))]),
                        token))
           [] action = "spawn" ->
                IF body.kind = "null" THEN Throw("destructure")
                ELSE IF ~Truthy(body.task)
                THEN Respond(Json(400, [error |-> "task required"]))
                ELSE Fetch(PostFetch("/api/sessions/spawn",
                        StringifyFields(
                            [task |-> body.task,
                             agentId |-> body.agentId,
                             label |-> body.label,
                             model |-> body.model,
                             thinking |-> body.thinking,
                             runTimeoutSeconds |->
                                 Some(Default(body.runTimeoutSeconds, 300)),
                             cleanup |-> Some(Default(body.cleanup, "keep"))]),
                        token))
           [] OTHER -> UnknownAction

\* POST of the session proxy from the gateway's answer on
ProxyPostFinish(action, res) ==
    IF res.kind = "network" THEN Throw("fetch")
    ELSE IF ~Ok(res)
    THEN IF action = "send"
         THEN Respond(Json(FailedStatus(res), [error |-> "Send failed"]))
         ELSE Respond(Json(FailedStatus(res), [error |-> "Spawn failed"]))
    ELSE PassOn(res)

\* POST /api/send up to its fetch
SendStart(body, token) ==
    IF body.kind = "invalid" THEN Throw("request.json")
    ELSE IF body.kind = "null" THEN Throw("destructure")
    ELSE IF ~Truthy(body.message)
    THEN Respond(Json(400, [error |-> "Message is required"]))
    ELSE IF ~Truthy(body.agentId) /\ ~Truthy(body.sessionKey)
    THEN Respond(Json(400, [error |-> "Either agentId or sessionKey is required"]))
    ELSE Fetch(PostFetch("/api/sessions/send",
            StringifyFields(
                [agentId |-> body.agentId,
                 sessionKey |-> body.sessionKey,
                 message |-> body.message,
                 timeoutSeconds |-> Some(Default(body.timeoutSeconds, 120))]),
            token))

\* a direct send route answering 502 to every gateway status that is not OK
SendFinishBadGateway(res) ==
    IF res.kind = "network" THEN Throw("fetch")
    ELSE IF ~Ok(res)
    THEN Respond(Json(502, [error |-> <<"Gateway error: ", res.status>>]))
    ELSE PassOn(res)

\* POST /api/send from the gateway's answer on
SendFinish(res) ==
    IF res.kind = "network" THEN Throw("fetch")
    ELSE IF ~Ok(res)
    THEN Respond(Json(res.status, [error |-> <<"Gateway error: ", res.status>>]))
    ELSE PassOn(res)

\* the handler of a request up to its first fetch
Start(req, token) ==
    IF req.route = "send" THEN SendStart(req.body, token)
    ELSE IF req.method = "GET" THEN ProxyGetStart(req.action, req.query, token)
    ELSE ProxyPostStart(req.action, req.body, token)

\* the handler of a request from the gateway's answer on
Finish(req, res) ==
    IF req.route = "send" THEN SendFinish(res)
    ELSE IF req.method = "GET" THEN ProxyGetFinish(req.action, res)
    ELSE ProxyPostFinish(req.action, res)

\* the catch block that encloses the handler of req
Catch(req) == IF req.route = "send" THEN SendCatch ELSE ProxyCatch

(* Requests and gateway answers *)

Actions == {"list", "history", "status", "send", "spawn", "bogus"}

Opt(S) == {Null} \cup {Some(x) : x \in S}

NoQuery ==
    [sessionKey |-> Null, limit |-> Null, kinds |-> Null, activeMinutes |-> Null,
     messageLimit |-> Null, includeTools |-> Null]

Queries ==
    [sessionKey : Opt({"", "s1"}), limit : Opt({"10"}), kinds : Opt({"main"}),
     activeMinutes : Opt({"5"}), messageLimit : Opt({"1"}),
     includeTools : Opt({"true"})]

NoFields ==
    [message |-> Null, agentId |-> Null, sessionKey |-> Null, label |-> Null,
     timeoutSeconds |-> Null, task |-> Null, model |-> Null, thinking |-> Null,
     runTimeoutSeconds |-> Null, cleanup |-> Null]

\* bodies with the fields of a send
SendBodies ==
    { [NoFields EXCEPT !.message = f.message, !.agentId = f.agentId,
                       !.sessionKey = f.sessionKey, !.label = f.label,
                       !.timeoutSeconds = f.timeoutSeconds] @@ [kind |-> "object"] :
        f \in [message : Opt({"", "hi"}), agentId : Opt({"a1"}),
               sessionKey : Opt({"s1"}), label : Opt({"l1"}),
               timeoutSeconds : Opt({30})] }

\* bodies with the fields of a spawn
SpawnBodies ==
    { [NoFields EXCEPT !.task = f.task, !.agentId = f.agentId, !.label = f.label,
                       !.model = f.model, !.thinking = f.thinking,
                       !.runTimeoutSeconds = f.runTimeoutSeconds,
                       !.cleanup = f.cleanup] @@ [kind |-> "object"] :
        f \in [task : Opt({"", "t1"}), agentId : Opt({"a1"}), label : Opt({"l1"}),
               model : Opt({"m1"}), thinking : Opt({"low"}),
               runTimeoutSeconds : Opt({60}), cleanup : Opt({"delete"})] }

\* a body that is not JSON, and the JSON text null
OtherBodies == {NoFields @@ [kind |-> "invalid"], NoFields @@ [kind |-> "null"]}

Bodies == SendBodies \cup SpawnBodies \cup OtherBodies

NoBody == NoFields @@ [kind |-> "none"]

Requests ==
    { [route |-> "sessions", method |-> "GET", action |-> a, query |-> q,
       body |-> NoBody] : a \in Actions, q \in Queries }
    \cup
    { [route |-> "sessions", method |-> "POST", action |-> a, query |-> NoQuery,
       body |-> b] : a \in Actions, b \in Bodies }
    \cup
    { [route |-> "send", method |-> "POST", action |-> "", query |-> NoQuery,
       body |-> b] : b \in Bodies }

GatewayStatuses == {200, 401, 404, 500, 503}

GatewayData == [response |-> "yo"]

\* fetch rejects, or resolves with a status and a body that is JSON or not
GatewayOutcomes ==
    { [kind |-> "network", status |-> 0, json |-> FALSE, data |-> GatewayData] }
    \cup
    { [kind |-> "response", status |-> st, json |-> j, data |-> GatewayData] :
        st \in GatewayStatuses, j \in BOOLEAN }

\* the handler runs on a request until it answers or awaits the gateway
HandleRequest(req) ==
    /\ pc = "idle"
    /\ request' = Some(req)
    /\ gatewayOutcome' = Null
    /\ LET step == Start(req, gatewayToken)
       IN  CASE step.kind = "respond" ->
                  /\ responses' = <<step.response>>
                  /\ pc' = "done"
                  /\ gatewayRequest' = Null
                  /\ gatewayCalls' = 0
                  /\ thrown' = Null
             [] step.kind = "fetch" ->
                  /\ responses' = <<>>
                  /\ pc' = "fetching"
                  /\ gatewayRequest' = Some(step.gw)
                  /\ gatewayCalls' = 1
                  /\ thrown' = Null
             [] step.kind = "throw" ->
                  /\ responses' = <<Catch(req)>>
                  /\ pc' = "done"
                  /\ gatewayRequest' = Null
                  /\ gatewayCalls' = 0
                  /\ thrown' = Some(step.error)
    /\ UNCHANGED gatewayToken
    /\ UNCHANGED <<chVars, pageVars, lastOp>>

\* the gateway's answer arrives and the handler runs to its end
GatewayAnswers(res) ==
    /\ pc = "fetching"
    /\ gatewayOutcome' = Some(res)
    /\ LET step == Finish(request[1], res)
       IN  IF step.kind = "respond"
           THEN /\ responses' = Append(responses, step.response)
                /\ thrown' = Null
           ELSE /\ responses' = Append(responses, Catch(request[1]))
                /\ thrown' = Some(step.error)
    /\ pc' = "done"
    /\ UNCHANGED <<gatewayToken, request, gatewayRequest, gatewayCalls>>
    /\ UNCHANGED <<chVars, pageVars, lastOp>>

\* the response has been returned; the handler is ready for the next request
ReturnResponse ==
    /\ pc = "done"
    /\ pc' = "idle"
    /\ request' = Null
    /\ gatewayRequest' = Null
    /\ gatewayCalls' = 0
    /\ gatewayOutcome' = Null
    /\ thrown' = Null
    /\ responses' = <<>>
    /\ UNCHANGED gatewayToken
    /\ UNCHANGED <<chVars, pageVars, lastOp>>

----------------------------------------------------------------------------
(* Specifications *)

InitClient ==
    /\ workspaceId \in WorkspaceIds
    /\ pageLoading = TRUE
    /\ workspace = Null
    /\ selectedChannel = Null
    /\ messages = <<>>
    /\ sending = FALSE
    /\ inflight = Null
    /\ lsMessages = <<>>
    /\ clock = 0
    /\ channels = <<>>
    /\ chLoading = TRUE
    /\ lsChannels = Null
    /\ nCreated = 0
    /\ appended = <<>>
    /\ lastOp = [op |-> "init", n |-> 0]

GatewayTokens == {"", "secret"}

InitServer ==
    /\ gatewayToken \in GatewayTokens
    /\ pc = "idle"
    /\ request = Null
    /\ gatewayRequest = Null
    /\ gatewayCalls = 0
    /\ gatewayOutcome = Null
    /\ thrown = Null
    /\ responses = <<>>

ChannelIds == {channels[i].id : i \in 1..Len(channels)}

\* the channel store on its own, with every channel name the user can type
NextChannels ==
    \/ \E outcome \in FetchOutcomes : FetchData(outcome)
    \/ MountChannels
    \/ \E newChannelName \in NameInputs : HandleCreateChannel(newChannelName)
    \/ \E channelId \in ChannelIds : HandleDeleteChannel(channelId)
    \/ Reload

\* the page is served by a process without a gateway token
InitPage == InitClient /\ InitServer /\ gatewayToken = ""

SpecChannels == InitPage /\ [][NextChannels]_vars

\* the page over the channel list as loaded: selection and the message store
NextPage ==
    \/ \E outcome \in FetchOutcomes : FetchData(outcome)
    \/ MountChannels
    \/ \E i \in 1..Len(channels) : HandleChannelSelect(channels[i])
    \/ \E inputValue \in MessageInputs : SendMessage(inputValue)
    \/ \E i \in 1..Len(inflight), outcome \in ReplyOutcomes, response \in Responses :
          ReceiveReply(i, outcome, response)
    \/ Reload

SpecPage == InitPage /\ [][NextPage]_vars

\* the page and its channel list together: selection under creates and deletes
NextSelect ==
    \/ \E outcome \in FetchOutcomes : FetchData(outcome)
    \/ MountChannels
    \/ \E i \in 1..Len(channels) : HandleChannelSelect(channels[i])
    \/ \E newChannelName \in NameInputs : HandleCreateChannel(newChannelName)
    \/ \E channelId \in ChannelIds : HandleDeleteChannel(channelId)
    \/ Reload

\* the page as first opened in a browser with nothing stored
InitSelect == InitPage /\ workspaceId = <<"w">>

SpecSelect == InitSelect /\ [][NextSelect]_vars

\* the route handlers, one request at a time
NextProxy ==
    \/ \E req \in Requests : HandleRequest(req)
    \/ \E res \in GatewayOutcomes : GatewayAnswers(res)
    \/ ReturnResponse

\* the route handlers run apart from any page
InitProxy == InitClient /\ InitServer /\ workspaceId = <<"w">>

SpecProxy == InitProxy /\ [][NextProxy]_vars

----------------------------------------------------------------------------
(* Channel store properties *)

ChannelsLoaded == ChMounted /\ ~chLoading

\* C1: once the channel list has been loaded or seeded it is never empty,
\* whatever creates and deletes follow.
C1_ChannelListNeverEmpty == ChannelsLoaded => Len(channels) >= 1

\* C2: no two channels of the list have the same id.
C2_ChannelIdsUnique ==
    \A i, j \in 1..Len(channels) : i # j => channels[i].id # channels[j].id

\* C3: a delete that runs while the list holds exactly one channel leaves the
\* list and the stored value as they were.
C3_DeleteOfLastChannelIsNoOp ==
    [][(lastOp'.op = "delete" /\ Len(channels) = 1)
          => (channels' = channels /\ lsChannels' = lsChannels)]_vars

\* a delete has run on a one-channel list, which is still there and stored
C3_Witness ==
    /\ lastOp = [op |-> "delete", n |-> 1]
    /\ Len(channels) = 1
    /\ lsChannels = Some(JSONstringify(channels))

\* C4: when nothing is stored for the workspace, the load yields general, tasks,
\* research, ideas in that order, each with id workspaceId-name, and storage
\* holds that same list. (lastOp.n of a mount is 0 when nothing was stored.)
C4_FirstLoadSeedsDefaults ==
    lastOp = [op |-> "mount", n |-> 0] =>
        /\ Len(channels) = 4
        /\ [i \in 1..4 |-> channels[i].name] = <<General, Tasks, Research, Ideas>>
        /\ \A i \in 1..4 : channels[i].id = workspaceId \o Hyphen \o channels[i].name
        /\ lsChannels # Null
        /\ JSONparse(lsChannels[1]) = channels

\* the first mount of workspace x1 has run
C4_Witness ==
    /\ lastOp = [op |-> "mount", n |-> 0]
    /\ workspaceId = <<"x", "1">>
    /\ Len(channels) = 4

NoSpaceNoUpper(s) == \A i \in 1..Len(s) : ~IsSpace(s[i]) /\ LowerChar(s[i]) = s[i]

\* C5: after a create with a non-blank name the list is one longer, and its last
\* channel has a lower-case, whitespace-free name and the id workspaceId-name.
C5_CreateDerivesIdFromName ==
    (lastOp.op = "create" /\ Len(channels) = lastOp.n + 1) =>
        LET ch == channels[Len(channels)]
        IN  /\ NoSpaceNoUpper(ch.name)
            /\ ch.id = workspaceId \o Hyphen \o ch.name

----------------------------------------------------------------------------
(* Message store properties *)

\* C6: the list shown for the selected channel, whether built by appends or
\* loaded from storage after a reload, is the list of all messages appended to
\* that channel, in order.
C6_ReloadReproducesAppended ==
    selectedChannel # Null =>
        ListOf(messages, selectedChannel[1].id) = ListOf(appended, selectedChannel[1].id)

\* C12: once the effects of a step have run, the list stored under
\* clawhub_messages_{channelId} is the in-memory list of that channel, for every
\* channel with a list in memory, also when a reply arrived after the user
\* selected another channel.
C12_StoredListIsMemoryList ==
    \A c \in DOMAIN messages :
        /\ c \in DOMAIN lsMessages
        /\ JSONparse(lsMessages[c]) = messages[c]

\* C13: once the page and its channel list have loaded, and before the user
\* selects anything, the selected channel is the first channel of the list, also
\* on the visit that seeds the list with the defaults.
C13_FirstChannelSelectedOnceLoaded ==
    (ChannelsLoaded /\ lastOp.op = "mount") =>
        /\ selectedChannel # Null
        /\ selectedChannel[1] = channels[1]

IsPrefix(s, t) == Len(s) <= Len(t) /\ SubSeq(t, 1, Len(s)) = s

\* C14: within one page instance every channel's in-memory message list only
\* grows at its end: across selections, lazy loads, sends and replies each list
\* is a prefix of its next value.
C14_MessageListsAppendOnly ==
    [][lastOp'.op # "reload" =>
          \A c \in DOMAIN messages :
              /\ c \in DOMAIN messages'
              /\ IsPrefix(messages[c], messages'[c])]_vars

\* a channel holds a user message and its reply while another is selected
C14_Witness ==
    /\ lastOp.op = "select"
    /\ selectedChannel # Null
    /\ \E c \in DOMAIN messages :
          /\ c # selectedChannel[1].id
          /\ Len(messages[c]) = 2
          /\ messages[c][2].role = <<"agent">>

Last(list) == list[Len(list)]

\* a step that issues a proxy request carries the user message with it
RequestCarriesUserMessage ==
    Len(inflight') > Len(inflight) =>
        /\ ~sending /\ sending'
        /\ selectedChannel # Null
        /\ LET c == selectedChannel[1].id
               sent == Last(inflight')
           IN  /\ inflight' = Append(inflight, sent)
               /\ messages'[c] = Append(ListOf(messages, c), Last(messages'[c]))
               /\ Last(messages'[c]).role = <<"user">>
               /\ Last(messages'[c]).content # <<>>
               /\ \E input \in MessageInputs : Last(messages'[c]).content = Trim(input)
               /\ sent.channel = selectedChannel[1]
               /\ sent.body.message =
                     <<"[Channel: #">> \o sent.channel.name \o <<"]\n">>
                         \o Last(messages'[c]).content
               /\ \A d \in DOMAIN messages \ {c} : messages'[d] = messages[d]

\* every accepted send issues exactly one request
SendIssuesRequest ==
    \A input \in MessageInputs :
        (SendMessage(input) /\ Trim(input) # <<>> /\ selectedChannel # Null /\ ~sending)
            => Len(inflight') = Len(inflight) + 1

\* the answer to a request appends the reply or nothing, and ends the sending
ReplyAppendsOnlyOnOk ==
    \A i \in 1..Len(inflight), outcome \in ReplyOutcomes, response \in Responses :
        ReceiveReply(i, outcome, response) =>
            LET c == inflight[i].channel.id
            IN  /\ sending' = FALSE
                /\ Len(inflight') = Len(inflight) - 1
                /\ c \in DOMAIN messages /\ messages[c] # <<>>
                /\ IF outcome = "ok"
                   THEN /\ messages'[c] = Append(messages[c], Last(messages'[c]))
                        /\ Last(messages'[c]).role = <<"agent">>
                        /\ Last(messages'[c]).content = response
                        /\ \A d \in DOMAIN messages \ {c} : messages'[d] = messages[d]
                   ELSE messages' = messages

\* C15: a send with non-blank input and a selected channel appends the user
\* message in the step that issues the proxy request; the answer appends an agent
\* message only when it is OK and carries a response; on a failed or thrown
\* request the lists stay as they were, and in every case sending is false again.
C15_SendAppendsUserThenReply ==
    [][RequestCarriesUserMessage /\ SendIssuesRequest /\ ReplyAppendsOnlyOnOk]_vars

\* a request failed: its user message is the channel's only message, and
\* sending is false again
C15_Witness ==
    /\ lastOp.op = "reply"
    /\ clock = 1
    /\ ~sending /\ inflight = <<>>
    /\ selectedChannel # Null
    /\ selectedChannel[1].id \in DOMAIN messages
    /\ Len(messages[selectedChannel[1].id]) = 1
    /\ messages[selectedChannel[1].id][1].role = <<"user">>
    /\ messages[selectedChannel[1].id][1].content = <<"o", "k">>

\* C17: once the channel list has loaded, the selected channel, when there is
\* one, is a channel of the list; a delete of the selected channel does not
\* leave it selected.
C17_SelectedChannelIsListed ==
    (ChannelsLoaded /\ selectedChannel # Null) =>
        \E i \in 1..Len(channels) : channels[i] = selectedChannel[1]

\* every message held under key c carries channelId c
KeysMatchChannelIds ==
    \A c \in DOMAIN messages :
        \A i \in 1..Len(messages[c]) : messages[c][i].channelId = c

\* at most one fetch of sendMessage is pending, and only while sending
OneSendInFlight == Len(inflight) <= 1 /\ (inflight # <<>> => sending)

\* a fetch keeps the channel that was selected when it was issued
SendCapturesSelection ==
    /\ Len(inflight') > Len(inflight) => Last(inflight').channel = selectedChannel[1]
    /\ lastOp'.op = "select" => inflight' = inflight

\* a reply goes to the list of its fetch's channel, right after the user
\* message of that send, whatever channel is selected by then
ReplyJoinsItsSend ==
    \A i \in 1..Len(inflight), response \in Responses :
        ReceiveReply(i, "ok", response) =>
            LET c == inflight[i].channel.id
            IN  /\ c \in DOMAIN messages
                /\ Last(messages[c]).role = <<"user">>
                /\ inflight[i].body.message =
                      <<"[Channel: #">> \o inflight[i].channel.name \o <<"]\n">>
                          \o Last(messages[c]).content
                /\ messages' = WithList(messages, c,
                                   Append(messages[c], Last(messages'[c])))
                /\ Last(messages'[c]).role = <<"agent">>
                /\ Last(messages'[c]).channelId = c

\* C18: an agent reply is appended to the list of the channel that was selected
\* when its send started, also when another channel is selected by the time it
\* arrives; every message held under key c has channelId c; and at most one
\* send is in flight per page.
C18_ReplyGoesToSendChannel ==
    [][/\ KeysMatchChannelIds'
       /\ OneSendInFlight'
       /\ SendCapturesSelection
       /\ ReplyJoinsItsSend]_vars

\* a reply has just joined its user message in a channel that is no longer the
\* selected one
C18_Witness ==
    /\ lastOp.op = "reply"
    /\ inflight = <<>> /\ ~sending
    /\ selectedChannel # Null
    /\ \E c \in DOMAIN messages :
          /\ c # selectedChannel[1].id
          /\ Len(messages[c]) = 2
          /\ messages[c][1].role = <<"user">> /\ messages[c][1].channelId = c
          /\ messages[c][2].role = <<"agent">> /\ messages[c][2].channelId = c
          /\ selectedChannel[1].id \notin DOMAIN messages

----------------------------------------------------------------------------
(* Route handler properties *)

Handled == request # Null /\ pc = "done"

IsProxy(req) == req.route = "sessions"

\* the requests that lack a required field
FailsValidation(req) ==
    \/ /\ IsProxy(req) /\ req.method = "GET" /\ req.action = "history"
       /\ req.query.sessionKey \in {Null, Some("")}
    \/ /\ IsProxy(req) /\ req.method = "POST" /\ req.action = "send"
       /\ req.body.kind = "object"
       /\ req.body.message \in {Null, Some("")}
    \/ /\ IsProxy(req) /\ req.method = "POST" /\ req.action = "spawn"
       /\ req.body.kind = "object"
       /\ req.body.task \in {Null, Some("")}
    \/ /\ req.route = "send"
       /\ req.body.kind = "object"
       /\ \/ req.body.message \in {Null, Some("")}
          \/ /\ req.body.agentId \in {Null, Some("")}
             /\ req.body.sessionKey \in {Null, Some("")}

\* C7: a request that lacks a required field is answered 400 and nothing is
\* sent to the gateway.
C7_ValidationFailureIs400 ==
    (request # Null /\ FailsValidation(request[1])) =>
        /\ gatewayCalls = 0
        /\ gatewayRequest = Null
        /\ pc = "done"
        /\ Len(responses) = 1
        /\ responses[1].status = 400

\* a proxy send with an empty message and every other send field set was refused
C7_Witness ==
    /\ Handled
    /\ IsProxy(request[1]) /\ request[1].action = "send"
    /\ request[1].body.message = Some("")
    /\ request[1].body.agentId = Some("a1")
    /\ request[1].body.sessionKey = Some("s1")
    /\ responses = <<Json(400, [error |-> "message required"])>>

GatewayFailed ==
    /\ Handled
    /\ gatewayOutcome # Null
    /\ gatewayOutcome[1].kind = "response"
    /\ gatewayOutcome[1].status \notin 200..299

\* C8: on a gateway status s that is not OK, list, history and status answer 200
\* with an empty result, send and spawn answer s with their error.
C8_GatewayFailureByAction ==
    (GatewayFailed /\ IsProxy(request[1])) =>
        LET a == request[1].action
            st == gatewayOutcome[1].status
        IN  /\ a \in {"list", "history", "status", "send", "spawn"}
            /\ a = "list" => responses = <<Json(200, [sessions |-> <<>>])>>
            /\ a = "history" => responses = <<Json(200, [messages |-> <<>>])>>
            /\ a = "status" => responses = <<Json(200, <<>>)>>
            /\ a = "send" => responses = <<Json(st, [error |-> "Send failed"])>>
            /\ a = "spawn" => responses = <<Json(st, [error |-> "Spawn failed"])>>

\* a spawn met a gateway 503 and answered 503
C8_Witness ==
    /\ GatewayFailed
    /\ IsProxy(request[1]) /\ request[1].action = "spawn"
    /\ gatewayOutcome[1].status = 503
    /\ responses = <<Json(503, [error |-> "Spawn failed"])>>

Supported(method) ==
    IF method = "GET" THEN {"list", "history", "status"} ELSE {"send", "spawn"}

UnknownActionHandled ==
    /\ Handled
    /\ IsProxy(request[1])
    /\ request[1].action \notin Supported(request[1].method)

\* C9 as stated: an action outside the method's set is answered 400 Unknown
\* action with no gateway request, whatever the body or query.
C9_UnknownActionIs400 ==
    UnknownActionHandled =>
        /\ responses = <<Json(400, [error |-> "Unknown action"])>>
        /\ gatewayCalls = 0

\* C9 amended: an action outside the method's set never reaches the gateway and
\* is answered 400 Unknown action, except that a POST whose body is not valid
\* JSON is answered 500 Request failed.
C9_UnknownActionUnlessBodyInvalid ==
    UnknownActionHandled =>
        /\ gatewayCalls = 0
        /\ gatewayRequest = Null
        /\ responses =
              IF request[1].method = "POST" /\ request[1].body.kind = "invalid"
              THEN <<Json(500, [error |-> "Request failed"])>>
              ELSE <<Json(400, [error |-> "Unknown action"])>>

\* a POST to a GET-only action with a JSON body was answered 400
C9_Witness ==
    /\ UnknownActionHandled
    /\ request[1].method = "POST" /\ request[1].action = "list"
    /\ request[1].body.kind = "object"
    /\ request[1].body.message = Some("hi")
    /\ responses = <<Json(400, [error |-> "Unknown action"])>>

RequestFailed == <<Json(500, [error |-> "Request failed"])>>

\* C10: in the session proxy every exception (the gateway unreachable, an OK
\* gateway answer that is not JSON, a request body that is not JSON) is answered
\* 500 Request failed, and a handled request has exactly one response.
C10_ExceptionsAre500 ==
    (request # Null /\ IsProxy(request[1])) =>
        /\ pc = "done" => Len(responses) = 1
        /\ pc # "done" => responses = <<>>
        /\ thrown # Null => (pc = "done" /\ responses = RequestFailed)
        /\ (gatewayOutcome # Null /\ gatewayOutcome[1].kind = "network")
              => responses = RequestFailed
        /\ (/\ gatewayOutcome # Null
            /\ gatewayOutcome[1].kind = "response"
            /\ gatewayOutcome[1].status \in 200..299
            /\ ~gatewayOutcome[1].json)
              => responses = RequestFailed
        /\ (request[1].method = "POST" /\ request[1].body.kind = "invalid")
              => responses = RequestFailed

\* an OK gateway answer to list was not JSON, and the proxy answered 500
C10_Witness ==
    /\ Handled
    /\ IsProxy(request[1]) /\ request[1].action = "list"
    /\ gatewayOutcome # Null
    /\ gatewayOutcome[1].status = 200 /\ ~gatewayOutcome[1].json
    /\ thrown = Some("res.json")
    /\ responses = RequestFailed

\* the same body sent to POST /api/send and to POST /api/sessions/send
DirectSend(body) ==
    [route |-> "send", method |-> "POST", action |-> "", query |-> NoQuery,
     body |-> body]

ProxySend(body) ==
    [route |-> "sessions", method |-> "POST", action |-> "send", query |-> NoQuery,
     body |-> body]

\* the response a handler gives once the gateway has answered res
ResponseTo(req, res) ==
    LET step == Finish(req, res)
    IN  IF step.kind = "respond" THEN step.response ELSE Catch(req)

\* a send, by either route, whose body has a message and an agentId or sessionKey
SendWithTarget ==
    /\ request # Null
    /\ request[1] \in {DirectSend(request[1].body), ProxySend(request[1].body)}
    /\ request[1].body.kind = "object"
    /\ Truthy(request[1].body.message)
    /\ Truthy(request[1].body.agentId) \/ Truthy(request[1].body.sessionKey)

\* a gateway request without the label member of its body
WithoutLabel(gw) ==
    [gw EXCEPT !.body = Some({m \in gw.body[1] : m[1] # "label"})]

\* C11 as stated: for a body with a message and an agentId or sessionKey, the
\* direct send route and the proxy send action issue the same gateway request
\* and, for the same gateway outcome, answer with the same status.
C11_SendRoutesAgree ==
    SendWithTarget =>
        LET b == request[1].body
            direct == Start(DirectSend(b), gatewayToken)
            proxy == Start(ProxySend(b), gatewayToken)
        IN  /\ direct.kind = "fetch" /\ proxy.kind = "fetch"
            /\ gatewayRequest = Some(direct.gw)
            /\ gatewayRequest = Some(proxy.gw)
            /\ gatewayOutcome # Null =>
                  /\ responses[1].status = ResponseTo(DirectSend(b), gatewayOutcome[1]).status
                  /\ responses[1].status = ResponseTo(ProxySend(b), gatewayOutcome[1]).status

\* C11 amended: for such a body both routes POST to the same gateway URL with
\* the same headers, message, agentId, sessionKey and timeoutSeconds (120 when
\* absent); the proxy also forwards the body's label, which the direct route
\* drops, so the two requests are the same exactly up to that member; for the
\* same gateway outcome both answer with the same status, and with the same
\* body when the gateway's answer is passed on.
C11_SendRoutesAgreeUpToLabel ==
    SendWithTarget =>
        LET b == request[1].body
            direct == Start(DirectSend(b), gatewayToken)
            proxy == Start(ProxySend(b), gatewayToken)
        IN  /\ direct.kind = "fetch" /\ proxy.kind = "fetch"
            /\ gatewayRequest = Some(IF IsProxy(request[1]) THEN proxy.gw ELSE direct.gw)
            /\ direct.gw = WithoutLabel(proxy.gw)
            /\ b.label = Null => direct.gw = proxy.gw
            /\ b.label # Null => <<"label", b.label[1]>> \in proxy.gw.body[1]
            /\ <<"timeoutSeconds", Default(b.timeoutSeconds, 120)>> \in direct.gw.body[1]
            /\ gatewayOutcome # Null =>
                  LET d == ResponseTo(DirectSend(b), gatewayOutcome[1])
                      p == ResponseTo(ProxySend(b), gatewayOutcome[1])
                  IN  /\ responses = <<IF IsProxy(request[1]) THEN p ELSE d>>
                      /\ d.status = p.status
                      /\ d.status = 200 => d = p

\* the direct route dropped the label of a body, met a gateway 503 and answered 503
C11_Witness ==
    /\ SendWithTarget
    /\ request[1] = DirectSend(request[1].body)
    /\ request[1].body.label = Some("l1")
    /\ request[1].body.timeoutSeconds = Null
    /\ gatewayOutcome # Null /\ gatewayOutcome[1].status = 503
    /\ <<"timeoutSeconds", 120>> \in gatewayRequest[1].body[1]
    /\ responses = <<Json(503, [error |-> <<"Gateway error: ", 503>>])>>

====
